---------------------------- MODULE Spec2Model ----------------------------
(***************************************************************************)
(* A model of LocalLab's ModelManager (src/locallab/model_manager.py) and  *)
(* of the routes of src/locallab/main.py that act on it.                   *)
(*                                                                         *)
(* The ModelManager instance is the record mm.  Request handlers are the   *)
(* processes of Procs.  A handler runs without interruption except where   *)
(* the code awaits a load: load_model and load_custom_model are split at   *)
(* the two from_pretrained calls (tokenizer, then weights), the places at  *)
(* which another handler may run.  Everything else a handler does between  *)
(* two such places is one step.                                            *)
(*                                                                         *)
(* Time is counted in whole units; MODEL_TIMEOUT is in the same units.     *)
(* Numbers that are floats in the code are kept in tenths (0.7 is 7).      *)
(***************************************************************************)
EXTENDS Integers, Sequences, FiniteSets, TLC

\* ------------------------------------------------------------------
\* Bounds of the model

\* Entries the response cache may hold: a call that would store one more
\* is not made.
MaxCached == 2
\* The clock runs from 0 (construction of the ModelManager) to MaxTime.
MaxTime == 2

\* The request handlers that may run concurrently.
Procs == {1, 2}

\* ------------------------------------------------------------------
\* Values

\* Python's None.
None == "None"
\* An attribute removed by `del self.model` and not assigned again:
\* reading it raises AttributeError.
Deleted == "<deleted>"

\* locallab/config.py is not among the sources: the default model id is
\* the one the specification names, and the registry's only fallback is
\* the default model.
DEFAULT_MODEL == "qwen-0.5b"
RegistryIds == {"qwen-0.5b", "phi-2"}
\* The one model name load_custom_model is called with.
CustomNames == {"org/x"}
Custom(name) == IF name = "org/x" THEN "custom/org/x" ELSE None
\* MODEL_REGISTRY[id]["fallback"]
Fallback(id) == IF id = "phi-2" THEN "qwen-0.5b" ELSE None
\* Idle time after which the reaper unloads (config.MODEL_TIMEOUT).
MODEL_TIMEOUT == 1

VARIABLES
    mm,       \* the ModelManager instance
    task,     \* task[p]: where handler p is suspended, and its call's arguments
    now,      \* time.time()
    unload_unused,  \* config.UNLOAD_UNUSED_MODELS, fixed at start
    ret,      \* what the last step returned or raised
    reaps,    \* times the reaper has unloaded since the last generate or load step
    pres,     \* a parameter resolution of generate: its arguments, then its result
    sg,       \* a stream: the locals of _stream_generate and improved_stream_generator
    bt,       \* a /generate/batch request: its body, then the route's locals
    ci,       \* a ChatInterface of the CLI, and what its last call returned
    cr,       \* a run of cacheable generate calls: how many have been made
    ao,       \* a call of _apply_optimizations: its settings, then its result
    qc,       \* a call of _get_quantization_config: its settings, then its result
    cs        \* a stream_generate call of the client: its attempts and chunks

vars == <<mm, task, now, unload_unused, ret, reaps, pres, sg, bt, ci, cr, ao, qc, cs>>

\* ------------------------------------------------------------------
\* ModelManager.__init__

\* model_config is not assigned by __init__: the attribute does not exist
\* until load_custom_model sets it.  device is assigned nowhere.
NewModelManager(t) ==
    [ model |-> None,
      tokenizer |-> None,
      current_model |-> None,
      loading |-> FALSE,
      last_use |-> t,
      response_cache |-> << >>,
      model_config |-> Deleted,
      device |-> Deleted ]

\* Python truthiness of self.model / self.tokenizer (a loaded object is truthy).
Truthy(h) == h # None

\* ModelManager.unload_model, for a model attribute that exists.
unload_model_stale_tokenizer(m) ==
    IF m.model # None
    THEN [m EXCEPT !.model = None, !.current_model = None]
    ELSE m

unload_model(m) ==
    IF m.model # None
    THEN [m EXCEPT !.model = None, !.tokenizer = None, !.current_model = None]
    ELSE m

\* ModelManager.check_model_timeout.  Reading self.model when the attribute
\* is deleted raises AttributeError (CheckRaises); the flag is tested first.
CheckRaises(m, flag) == flag /\ m.model = Deleted

\* fired: the unload branch ran (it logs "Unloading model ... due to inactivity").
check_model_timeout_no_guard(m, flag, t) ==
    IF ~flag
    THEN [mm |-> m, fired |-> FALSE]
    ELSE IF t - m.last_use > MODEL_TIMEOUT
         THEN [mm |-> [m EXCEPT !.model = None, !.current_model = None], fired |-> TRUE]
         ELSE [mm |-> m, fired |-> FALSE]

check_model_timeout_at_timeout(m, flag, t) ==
    IF ~flag \/ ~Truthy(m.model)
    THEN [mm |-> m, fired |-> FALSE]
    ELSE IF t - m.last_use >= MODEL_TIMEOUT
         THEN [mm |-> [m EXCEPT !.model = None, !.current_model = None], fired |-> TRUE]
         ELSE [mm |-> m, fired |-> FALSE]

check_model_timeout(m, flag, t) ==
    IF ~flag \/ ~Truthy(m.model)
    THEN [mm |-> m, fired |-> FALSE]
    ELSE IF t - m.last_use > MODEL_TIMEOUT
         THEN [mm |-> [m EXCEPT !.model = None, !.current_model = None], fired |-> TRUE]
         ELSE [mm |-> m, fired |-> FALSE]

\* ------------------------------------------------------------------
\* ModelManager.load_model, cut at its two from_pretrained calls

\* Up to the first from_pretrained: the busy guard (raised before the try,
\* so the finally does not run), _loading = True, and the unload of the
\* resident model.  `if self.model:` on a deleted attribute raises inside
\* the try: the finally clears _loading.  out: busy | go | error.
load_model_entry_guard_in_try(m, id) ==
    IF m.loading
    THEN [mm |-> [m EXCEPT !.loading = FALSE], out |-> "busy"]
    ELSE IF m.model = Deleted
         THEN [mm |-> [m EXCEPT !.loading = FALSE], out |-> "error"]
         ELSE [mm |-> unload_model([m EXCEPT !.loading = TRUE]), out |-> "go"]

load_model_entry_no_unload(m, id) ==
    IF m.loading
    THEN [mm |-> m, out |-> "busy"]
    ELSE IF m.model = Deleted
         THEN [mm |-> [m EXCEPT !.loading = FALSE], out |-> "error"]
         ELSE [mm |-> [m EXCEPT !.loading = TRUE], out |-> "go"]

load_model_entry(m, id) ==
    IF m.loading
    THEN [mm |-> m, out |-> "busy"]
    ELSE IF m.model = Deleted
         THEN [mm |-> [m EXCEPT !.loading = FALSE], out |-> "error"]
         ELSE [mm |-> unload_model([m EXCEPT !.loading = TRUE]), out |-> "go"]

\* _load_model_with_optimizations: self.tokenizer = AutoTokenizer.from_pretrained(id)
load_tokenizer(m, id) == [m EXCEPT !.tokenizer = id]

\* self.model = AutoModelForCausalLM.from_pretrained(id), _apply_optimizations,
\* then load_model's self.current_model = id and its finally.
load_weights_keeps_current_model(m, id) ==
    [m EXCEPT !.model = id, !.loading = FALSE]

load_weights(m, id) ==
    [m EXCEPT !.model = id, !.current_model = id, !.loading = FALSE]

\* Any step of the load raising: `except: raise`, then the finally.
load_raise(m) == [m EXCEPT !.loading = FALSE]

\* ------------------------------------------------------------------
\* The response cache: a dict, kept in insertion order.  An entry also
\* records the model id that was current when it was stored (under) and
\* whether current_model has changed since (stale), which the code does not
\* keep.

CACHE_LIMIT == 100
EVICT_BATCH == 10

Prompts == {"p1", "p2"}
Texts == {"t1", "t2"}

\* str(system_instructions): `from .config import system_instructions`
\* inside generate rebinds the parameter of that name to the config object,
\* which is truthy, so the caller's override is never read.
SystemInstructionsStr == "<SystemInstructions object>"

\* generate's `instructions`, whatever the caller passes as system_instructions.
generate_instructions(sysparam, cm) == SystemInstructionsStr

\* f"<|system|>{instructions}</|system|>\n<|user|>{prompt}</|user|>\n<|assistant|>"
FormatPrompt(instructions, prompt) == <<instructions, prompt>>

\* hash(formatted_prompt): Python's string hash, an integer that stands for
\* the whole string: in this model 2 for the formatted prompts of p2 and 1
\* for those of p1.
Hash(fp) == IF fp[2] = "p2" THEN 2 ELSE 1

\* cache_key = f"{self.current_model}:{hash(formatted_prompt)}"
cache_key_without_model(cm, fp) == <<"", Hash(fp)>>

cache_key(cm, fp) == <<cm, Hash(fp)>>

CacheHas(c, k) == \E i \in 1..Len(c) : c[i].key = k
CacheGet(c, k) == c[CHOOSE i \in 1..Len(c) : c[i].key = k]

\* self.response_cache[cache_key] = response, then the size limit.
CachePut_not_stored(c, e) == c

CachePut_evict_newest(c, e) ==
    LET put == IF CacheHas(c, e.key)
               THEN [i \in 1..Len(c) |-> IF c[i].key = e.key THEN e ELSE c[i]]
               ELSE Append(c, e)
    IN IF Len(put) > CACHE_LIMIT
       THEN SubSeq(put, 1, Len(put) - EVICT_BATCH)
       ELSE put

CachePut(c, e) ==
    LET put == IF CacheHas(c, e.key)
               THEN [i \in 1..Len(c) |-> IF c[i].key = e.key THEN e ELSE c[i]]
               ELSE Append(c, e)
    IN IF Len(put) > CACHE_LIMIT
       THEN SubSeq(put, EVICT_BATCH + 1, Len(put))
       ELSE put

\* ------------------------------------------------------------------
\* Generation parameters.  A value a caller can pass: None, a number (in
\* tenths), float('inf'), a string that reads as a number ("5", "0.5"),
\* or a string that does not ("abc").

PNone == [t |-> "none", v |-> 0]
Num(v) == [t |-> "num", v |-> v]
Inf == [t |-> "inf", v |-> 0]
NumStr(v) == [t |-> "str", v |-> v]
BadStr == [t |-> "bad", v |-> 0]
\* A key that a dict does not hold.
Absent == [t |-> "absent", v |-> 0]

Tenths(n) == n * 10

\* Python truthiness: None and 0 are false, every other value here is true.
PyTruthy(x) == ~(x.t = "none" \/ (x.t = "num" /\ x.v = 0))

\* int(x): truncates a float, reads an integer literal, raises ValueError on
\* any other string and OverflowError on an infinity.
PyInt(x) ==
    CASE x.t = "num" -> [r |-> "ok", val |-> Num((x.v \div 10) * 10)]
      [] x.t = "str" -> IF x.v % 10 = 0 THEN [r |-> "ok", val |-> Num(x.v)]
                        ELSE [r |-> "ValueError", val |-> x]
      [] x.t = "inf" -> [r |-> "OverflowError", val |-> x]
      [] OTHER       -> [r |-> "ValueError", val |-> x]

\* float(x)
PyFloat(x) ==
    CASE x.t = "num" -> [r |-> "ok", val |-> x]
      [] x.t = "str" -> [r |-> "ok", val |-> Num(x.v)]
      [] x.t = "inf" -> [r |-> "ok", val |-> x]
      [] OTHER       -> [r |-> "ValueError", val |-> x]

\* min(a, b) of two numbers
PyMin(a, b) == IF a.v <= b.v THEN a ELSE b

\* config.py is not among the sources.  Global defaults, and a registry
\* in which phi-2 sets its own max_length, temperature and top_p and
\* qwen-0.5b sets none.
DEFAULT_MAX_LENGTH == Tenths(2048)
DEFAULT_TEMPERATURE == 7
DEFAULT_TOP_P == 9
RegistryParams(cm) ==
    IF cm = "phi-2"
    THEN [max_length |-> Num(Tenths(300)), temperature |-> Num(5), top_p |-> Num(8)]
    ELSE [max_length |-> Absent, temperature |-> Absent, top_p |-> Absent]

\* get_model_generation_params(model_id): the global defaults, overridden
\* by what the registry sets for the model.
get_model_generation_params(cm) ==
    LET reg == RegistryParams(cm)
        pick(x, d) == IF x = Absent THEN Num(d) ELSE x
    IN [ max_length |-> pick(reg.max_length, DEFAULT_MAX_LENGTH),
         temperature |-> pick(reg.temperature, DEFAULT_TEMPERATURE),
         top_p |-> pick(reg.top_p, DEFAULT_TOP_P),
         top_k |-> Absent,
         repetition_penalty |-> Absent ]

\* dict.get(key, default)
DictGet(x, d) == IF x = Absent THEN d ELSE x

\* One `if p is not None: try: gen_params[k] = coerce(p) except (ValueError,
\* TypeError): warn`.  An OverflowError is not caught here.
Override(old, p, kind) ==
    IF p = PNone THEN [r |-> "ok", val |-> old]
    ELSE LET c == IF kind = "int" THEN PyInt(p) ELSE PyFloat(p)
         IN CASE c.r = "ok" -> c
              [] c.r = "ValueError" -> [r |-> "ok", val |-> old]
              [] OTHER -> [r |-> c.r, val |-> old]

NoParams ==
    [ max_length |-> PNone, max_new_tokens |-> PNone, temperature |-> PNone,
      top_p |-> PNone, top_k |-> PNone, repetition_penalty |-> PNone ]

\* any([max_length, max_new_tokens, temperature, top_p, top_k, repetition_penalty])
AnyParam(q) ==
    \/ PyTruthy(q.max_length) \/ PyTruthy(q.max_new_tokens)
    \/ PyTruthy(q.temperature) \/ PyTruthy(q.top_p)
    \/ PyTruthy(q.top_k) \/ PyTruthy(q.repetition_penalty)

\* generate, lines 370-417: the parameters handed to the decode call, or
\* the exception that leaves the block.
ResolveParamsFrom(q, g0) ==
    LET g1 == IF ~PyTruthy(q.max_length) /\ ~PyTruthy(q.max_new_tokens)
              THEN [g0 EXCEPT !.max_length =
                        PyMin(DictGet(g0.max_length, Num(DEFAULT_MAX_LENGTH)), Num(Tenths(512)))]
              ELSE g0
        g2 == IF ~PyTruthy(q.temperature)
              THEN [g1 EXCEPT !.temperature =
                        PyMin(DictGet(g1.temperature, Num(DEFAULT_TEMPERATURE)), Num(7))]
              ELSE g1
        g3 == IF ~PyTruthy(q.top_k) THEN [g2 EXCEPT !.top_k = Num(Tenths(40))] ELSE g2
        max_length == IF q.max_new_tokens # PNone THEN q.max_new_tokens ELSE q.max_length
        ml == Override(g3.max_length, max_length, "int")
        te == Override(g3.temperature, q.temperature, "float")
        tp == Override(g3.top_p, q.top_p, "float")
        tk == Override(g3.top_k, q.top_k, "int")
        rp == Override(g3.repetition_penalty, q.repetition_penalty, "float")
        all == {ml, te, tp, tk, rp}
    IN IF \E c \in all : c.r # "ok"
       THEN [r |-> "raise", gp |-> g3]
       ELSE [r |-> "ok",
             gp |-> [ max_length |-> ml.val, temperature |-> te.val, top_p |-> tp.val,
                      top_k |-> tk.val, repetition_penalty |-> rp.val ]]

ResolveParams(q, cm) ==
    ResolveParamsFrom(q, get_model_generation_params(cm))

\* ------------------------------------------------------------------
\* What a step returned or raised.  status: ok | error | busy | stream
\* (generate returned the stream generator) | pending (the handler is
\* suspended in a load).

R0(op) ==
    [ op |-> op, status |-> "ok", id |-> None, tried |-> {}, prompt |-> None,
      text |-> None, hit |-> FALSE, under |-> None, cm |-> None,
      cacheable |-> FALSE, decodes |-> 0, reaped |-> FALSE, value |-> None ]

IdleTask ==
    [ pc |-> "idle", caller |-> "none", id |-> None, tried |-> {}, fallback |-> None,
      prompt |-> None, sysparam |-> None, params |-> NoParams, stream |-> FALSE ]

\* ------------------------------------------------------------------
\* ModelManager.generate from `self.last_used = time.time()` to its return:
\* no await, so one step.  outcome is what the tokenizer and the decode
\* calls do: ok, pre_error (an exception before the decode call), error (the
\* decode call raises, not out of memory), oom_ok and oom_error (out of
\* memory, then the retry returns or raises).  text is the decoded response.
\* Calling a tokenizer that is None (line 419) raises inside the try.

GenOutcomes == {"ok", "pre_error", "error", "oom_ok", "oom_error"}

\* The decode call and its handler (lines 440-486): self.model.generate is
\* called; a RuntimeError that says "CUDA out of memory" is caught and the
\* call made once more, any exception of which leaves the block; any other
\* exception is re-raised at once.  decodes: the calls of self.model.generate.
\* generate_params["max_new_tokens"] of the retry, for that of the failed
\* attempt (gen_params["max_length"]): min(max_new_tokens, 256).
RETRY_MAX_NEW_TOKENS == Tenths(256)
retry_max_new_tokens(n) == PyMin(n, Num(RETRY_MAX_NEW_TOKENS))

decode_retries_any_error(outcome) ==
    CASE outcome = "ok" -> [raised |-> FALSE, decodes |-> 1]
      [] outcome = "oom_ok" -> [raised |-> FALSE, decodes |-> 2]
      [] outcome = "error" -> [raised |-> FALSE, decodes |-> 2]
      [] OTHER -> [raised |-> TRUE, decodes |-> 2]

decode(outcome) ==
    CASE outcome = "ok" -> [raised |-> FALSE, decodes |-> 1]
      [] outcome = "oom_ok" -> [raised |-> FALSE, decodes |-> 2]
      [] outcome = "error" -> [raised |-> TRUE, decodes |-> 1]
      [] OTHER -> [raised |-> TRUE, decodes |-> 2]

\* `if cache_key: self.response_cache[cache_key] = response` (lines 494-501)
\* comes after the decode call and the clean-up of the response: it is
\* reached only when neither has raised.
cache_store_before_decode(m, e, cacheable, raised) ==
    IF cacheable THEN [m EXCEPT !.response_cache = CachePut(@, e)] ELSE m

cache_store(m, e, cacheable, raised) ==
    IF cacheable /\ ~raised THEN [m EXCEPT !.response_cache = CachePut(@, e)] ELSE m

GenBody(m, t, prompt, sysparam, q, stream, outcome, text) ==
    LET m1 == [m EXCEPT !.last_use = t]
        cm == m1.current_model
        instructions == generate_instructions(sysparam, cm)
        formatted_prompt == FormatPrompt(instructions, prompt)
        cacheable == ~stream /\ ~AnyParam(q)
        key == cache_key(cm, formatted_prompt)
        res == ResolveParams(q, cm)
        r0 == [R0("generate") EXCEPT !.prompt = prompt, !.cm = cm, !.cacheable = cacheable]
        entry == [key |-> key, text |-> text, under |-> cm, stale |-> FALSE]
    IN IF cacheable /\ CacheHas(m1.response_cache, key)
       THEN [mm |-> m1,
             ret |-> [r0 EXCEPT !.text = CacheGet(m1.response_cache, key).text,
                                !.under = CacheGet(m1.response_cache, key).under,
                                !.hit = TRUE]]
       ELSE IF res.r = "raise" \/ ~Truthy(m1.tokenizer) \/ outcome = "pre_error"
       THEN [mm |-> m1, ret |-> [r0 EXCEPT !.status = "error"]]
       ELSE IF stream
       THEN [mm |-> m1, ret |-> [r0 EXCEPT !.status = "stream"]]
       ELSE LET d == decode(outcome)
                m2 == cache_store(m1, entry, cacheable, d.raised)
            IN IF d.raised
               THEN [mm |-> m2, ret |-> [r0 EXCEPT !.status = "error", !.decodes = d.decodes]]
               ELSE [mm |-> m2, ret |-> [r0 EXCEPT !.text = text, !.decodes = d.decodes]]

\* ------------------------------------------------------------------
\* Steps

\* The ModelManager m2 that a step leaves, for the one it found (m): when
\* the step has changed current_model, the entries that were in the cache
\* before the step are marked stale.
MarkStale(c, old) ==
    [i \in 1..Len(c) |->
        IF \E j \in 1..Len(old) : old[j] = c[i] THEN [c[i] EXCEPT !.stale = TRUE] ELSE c[i]]

Settle(m, m2) ==
    IF m2.current_model # m.current_model
    THEN [m2 EXCEPT !.response_cache = MarkStale(@, m.response_cache)]
    ELSE m2

Step(p, m2, t2, r) ==
    /\ Len(m2.response_cache) <= MaxCached
    /\ mm' = Settle(mm, m2)
    /\ task' = [task EXCEPT ![p] = t2]
    /\ ret' = r
    /\ reaps' = IF r.op \in {"generate", "load_model", "load_custom_model"} THEN 0
                ELSE IF r.op = "check_model_timeout" /\ r.reaped THEN reaps + 1
                ELSE reaps
    /\ UNCHANGED <<now, unload_unused, pres, sg, bt, ci, cr, ao, qc, cs>>

\* No parameter resolution, no stream and no batch request under way.
NoResolve == [phase |-> "none"]
NoStream == [phase |-> "none"]
NoBatch == [phase |-> "none"]
NoChat == [phase |-> "none"]
NoCacheRun == [phase |-> "none"]
NoOpt == [phase |-> "none"]
NoQuant == [phase |-> "none"]
NoClientStream == [phase |-> "none"]

\* A ModelManager just constructed, and no handler running.
Constructed ==
    /\ mm = NewModelManager(0)
    /\ task = [p \in Procs |-> IdleTask]
    /\ now = 0
    /\ ret = R0("init")
    /\ reaps = 0

Init ==
    /\ Constructed
    /\ unload_unused \in BOOLEAN
    /\ pres = NoResolve
    /\ sg = NoStream
    /\ bt = NoBatch
    /\ ci = NoChat
    /\ cr = NoCacheRun
    /\ ao = NoOpt
    /\ qc = NoQuant
    /\ cs = NoClientStream

\* time passes
Tick ==
    /\ now < MaxTime
    /\ now' = now + 1
    /\ ret' = R0("tick")
    /\ UNCHANGED <<mm, task, unload_unused, reaps, pres, sg, bt, ci, cr, ao, qc, cs>>

\* load_model(id) called by a handler (the /models/load route, startup).
\* When the call goes on to the load, cm is the model it found resident
\* and unloaded.
LoadModel(p, id) ==
    /\ task[p].pc = "idle"
    /\ LET e == load_model_entry(mm, id)
           r == [R0("load_model") EXCEPT !.id = id]
       IN CASE e.out = "busy" -> Step(p, e.mm, IdleTask, [r EXCEPT !.status = "busy"])
            [] e.out = "error" -> Step(p, e.mm, IdleTask, [r EXCEPT !.status = "error"])
            [] OTHER ->
                 Step(p, e.mm,
                      [IdleTask EXCEPT !.pc = "tok", !.caller = "direct", !.id = id, !.tried = {id}],
                      [r EXCEPT !.status = "pending", !.cm = mm.current_model])

\* The tokenizer's from_pretrained returns.
LoadTokenizer(p) ==
    /\ task[p].pc = "tok"
    /\ Step(p, load_tokenizer(mm, task[p].id), [task[p] EXCEPT !.pc = "mdl"],
            [R0("load_model") EXCEPT !.id = task[p].id, !.status = "pending"])

\* The name of the call that handler p is in.
CallOf(t) ==
    CASE t.caller = "generate" -> "generate"
      [] t.caller = "custom" -> "load_custom_model"
      [] OTHER -> "load_model"

\* A step of the load raises (get_hf_token, either from_pretrained): the
\* exception leaves load_model, and leaves the caller too: generate awaits
\* the load before its try, load_custom_model awaits it in its except block.
LoadRaise(p) ==
    /\ task[p].pc \in {"tok", "mdl"}
    /\ Step(p, load_raise(mm), IdleTask,
            [R0(CallOf(task[p])) EXCEPT !.id = task[p].id, !.tried = task[p].tried,
                                        !.status = "error", !.prompt = task[p].prompt])

\* What load_model returns when it does not raise (`-> None`: it has no
\* return statement).
load_model_returns == None

\* The /models/load route: {"status": "success" if success else "failed"}
\* for success = await model_manager.load_model(...); the client's
\* load_model returns data["status"] == "success".
route_load_status(success) == IF success \in {None, "False"} THEN "failed" ELSE "success"

\* The weights' from_pretrained returns: load_model returns None, and the
\* caller goes on without giving up control.  For a call made by the
\* /models/load route, value is the status the route answers with; for
\* load_custom_model's fallback, what load_custom_model returns.
LoadWeights(p, outcome, text) ==
    /\ task[p].pc = "mdl"
    /\ LET t == task[p]
           m2 == load_weights(mm, t.id)
       IN IF t.caller = "generate"
          THEN LET g == GenBody(m2, now, t.prompt, t.sysparam, t.params,
                                t.stream, outcome, text)
               IN Step(p, g.mm, IdleTask, [g.ret EXCEPT !.tried = t.tried])
          ELSE Step(p, m2, IdleTask,
                    [R0(CallOf(t)) EXCEPT !.id = t.id, !.tried = t.tried,
                                          !.value = IF t.caller = "direct"
                                                    THEN route_load_status(load_model_returns)
                                                    ELSE load_model_returns])

\* The system_instructions argument of a generate call.
SysParams == {None, "be brief"}

\* generate(prompt, stream, ..., system_instructions): the reaper check, the
\* lazy load of DEFAULT_MODEL (awaited before the try), then the body.
Generate(p, prompt, sysparam, q, stream, outcome, text) ==
    /\ task[p].pc = "idle"
    /\ LET r == [R0("generate") EXCEPT !.prompt = prompt]
       IN IF CheckRaises(mm, unload_unused)
          THEN Step(p, mm, IdleTask, [r EXCEPT !.status = "error"])
          ELSE LET chk == check_model_timeout(mm, unload_unused, now)
                   m1 == chk.mm
                   rr == [r EXCEPT !.reaped = chk.fired]
               IN IF m1.model = Deleted
                  THEN Step(p, m1, IdleTask, [rr EXCEPT !.status = "error"])
                  ELSE IF ~Truthy(m1.model) \/ ~Truthy(m1.tokenizer)
                  THEN LET e == load_model_entry(m1, DEFAULT_MODEL)
                       IN IF e.out = "go"
                          THEN Step(p, e.mm,
                                    [ pc |-> "tok", caller |-> "generate", id |-> DEFAULT_MODEL,
                                      tried |-> {DEFAULT_MODEL}, fallback |-> None,
                                      prompt |-> prompt, sysparam |-> sysparam,
                                      params |-> q, stream |-> stream ],
                                    [rr EXCEPT !.status = "pending"])
                          ELSE Step(p, e.mm, IdleTask, [rr EXCEPT !.status = e.out])
                  ELSE LET g == GenBody(m1, now, prompt, sysparam, q, stream, outcome, text)
                       IN Step(p, g.mm, IdleTask, g.ret)

\* ModelManager.unload_model()
UnloadModel(p) ==
    /\ task[p].pc = "idle"
    /\ IF mm.model = Deleted
       THEN Step(p, mm, IdleTask, [R0("unload_model") EXCEPT !.status = "error"])
       ELSE Step(p, unload_model(mm), IdleTask,
                 [R0("unload_model") EXCEPT !.id = mm.current_model])

\* The /models/unload route of main.py, which clears the fields itself.
route_unload(m) ==
    IF Truthy(m.model)
    THEN [m EXCEPT !.model = None, !.current_model = None]
    ELSE m

RouteUnload(p) ==
    /\ task[p].pc = "idle"
    /\ IF mm.model = Deleted
       THEN Step(p, mm, IdleTask, [R0("route_unload") EXCEPT !.status = "error"])
       ELSE Step(p, route_unload(mm), IdleTask,
                 [R0("route_unload") EXCEPT
                     !.value = IF Truthy(mm.model) THEN "Model unloaded successfully"
                               ELSE "No model was loaded"])

\* ModelManager.check_model_timeout() called on its own
CheckModelTimeout(p) ==
    /\ task[p].pc = "idle"
    /\ IF CheckRaises(mm, unload_unused)
       THEN Step(p, mm, IdleTask, [R0("check_model_timeout") EXCEPT !.status = "error"])
       ELSE LET chk == check_model_timeout(mm, unload_unused, now)
            IN Step(p, chk.mm, IdleTask, [R0("check_model_timeout") EXCEPT !.reaped = chk.fired])

\* ModelManager.get_model_info (the /models/current route, startup_event).
\* r: marker ({"status": "No model loaded"}) | info | AttributeError (reading
\* an attribute that does not exist: model at line 796, model_config at
\* line 801, device at line 823).
get_model_info(m) ==
    IF ~Truthy(m.current_model)
    THEN [r |-> "marker", model_id |-> None]
    ELSE IF Deleted \in {m.model, m.model_config, m.device}
         THEN [r |-> "AttributeError", model_id |-> None]
         ELSE [r |-> "info", model_id |-> m.current_model]

GetModelInfo(p) ==
    /\ task[p].pc = "idle"
    /\ LET i == get_model_info(mm)
       IN Step(p, mm, IdleTask,
               [R0("get_model_info") EXCEPT
                   !.status = IF i.r = "AttributeError" THEN "error" ELSE "ok",
                   !.id = i.model_id,
                   !.value = IF i.r = "marker" THEN "No model loaded" ELSE None])

\* ------------------------------------------------------------------
\* ModelManager.load_custom_model, cut at its two from_pretrained calls

\* The except block: with a fallback, `return await self.load_model(fallback)`.
CustomExcept(p, m, name, fb) ==
    LET r == [R0("load_custom_model") EXCEPT !.id = name]
    IN IF fb = None
       THEN Step(p, m, IdleTask, [r EXCEPT !.status = "error"])
       ELSE LET e == load_model_entry(m, fb)
            IN IF e.out = "go"
               THEN Step(p, e.mm,
                         [IdleTask EXCEPT !.pc = "tok", !.caller = "custom", !.id = fb,
                                          !.tried = {fb}, !.fallback = fb],
                         [r EXCEPT !.status = "pending"])
               ELSE Step(p, e.mm, IdleTask, [r EXCEPT !.status = e.out, !.tried = {fb}])

\* Up to the tokenizer's from_pretrained: model_info and the resource check
\* (pre_ok: neither raises), then `if self.model: del self.model`.
custom_release(m) == IF Truthy(m.model) THEN [m EXCEPT !.model = Deleted] ELSE m

LoadCustomModel(p, name, fb, pre_ok) ==
    /\ task[p].pc = "idle"
    /\ IF ~pre_ok \/ mm.model = Deleted
       THEN CustomExcept(p, mm, name, fb)
       ELSE Step(p, custom_release(mm),
                 [IdleTask EXCEPT !.pc = "ctok", !.caller = "custom", !.id = name,
                                  !.fallback = fb],
                 [R0("load_custom_model") EXCEPT !.id = name, !.status = "pending"])

CustomTokenizer(p) ==
    /\ task[p].pc = "ctok"
    /\ Step(p, [mm EXCEPT !.tokenizer = task[p].id], [task[p] EXCEPT !.pc = "cmdl"],
            [R0("load_custom_model") EXCEPT !.id = task[p].id, !.status = "pending"])

\* The weights are loaded: current_model, model_config and last_used are set
\* and the call returns True.
custom_loaded(m, name, t) ==
    [m EXCEPT !.model = name, !.current_model = Custom(name),
              !.model_config = name, !.last_use = t]

CustomWeights(p) ==
    /\ task[p].pc = "cmdl"
    /\ Step(p, custom_loaded(mm, task[p].id, now), IdleTask,
            [R0("load_custom_model") EXCEPT !.id = task[p].id, !.value = "True"])

\* Either from_pretrained raises.
CustomRaise(p) ==
    /\ task[p].pc \in {"ctok", "cmdl"}
    /\ CustomExcept(p, mm, task[p].id, task[p].fallback)

\* A generate call's arguments.
Call(prompt, sysparam, q, stream) ==
    [prompt |-> prompt, sysparam |-> sysparam, q |-> q, stream |-> stream]

\* One handler's steps; calls are the generate calls made, outs what the
\* tokenizer and decode calls may do (an outcome and the decoded text).
HandlerStep(p, calls, outs) ==
    \/ \E id \in RegistryIds : LoadModel(p, id)
    \/ LoadTokenizer(p)
    \/ \E o \in outs : LoadWeights(p, o[1], o[2])
    \/ LoadRaise(p)
    \/ \E c \in calls, o \in outs :
          Generate(p, c.prompt, c.sysparam, c.q, c.stream, o[1], o[2])
    \/ UnloadModel(p)
    \/ RouteUnload(p)
    \/ CheckModelTimeout(p)

CustomStep(p) ==
    \/ \E name \in CustomNames, fb \in {None, DEFAULT_MODEL}, pre_ok \in BOOLEAN :
          LoadCustomModel(p, name, fb, pre_ok)
    \/ CustomTokenizer(p)
    \/ CustomWeights(p)
    \/ CustomRaise(p)

\* Concurrent handlers; their generate calls pass a temperature, so none
\* reads or writes the response cache.
ConcurrentCalls ==
    { Call("p1", sp, [NoParams EXCEPT !.temperature = Num(5)], st) :
        sp \in SysParams, st \in BOOLEAN }
ConcurrentOuts == {<<"ok", "t1">>, <<"error", "t1">>}

Next ==
    \/ Tick
    \/ \E p \in Procs : HandlerStep(p, ConcurrentCalls, ConcurrentOuts)
    \/ \E p \in Procs : CustomStep(p)
    \/ \E p \in Procs : GetModelInfo(p)

Spec == Init /\ [][Next]_vars

\* One handler at a time: buffered calls with no parameter for every prompt,
\* and for one prompt a system_instructions argument, a temperature of 0, a
\* temperature of 0.5 and a streamed call.
SeqCalls ==
    { Call(pr, None, NoParams, FALSE) : pr \in Prompts }
    \cup { Call("p1", "be brief", NoParams, FALSE),
           Call("p1", None, [NoParams EXCEPT !.temperature = Num(0)], FALSE),
           Call("p1", None, [NoParams EXCEPT !.temperature = Num(5)], FALSE),
           Call("p1", None, NoParams, TRUE) }
SeqOuts ==
    { <<"ok", t>> : t \in Texts } \cup { <<"error", "t1">> }

NextSeq ==
    \/ Tick
    \/ HandlerStep(1, SeqCalls, SeqOuts)

InitSeq == Init /\ unload_unused = TRUE

SpecSeq == InitSeq /\ [][NextSeq]_vars

\* ------------------------------------------------------------------
\* Parameter resolution of generate, on its own: the arguments are drawn at
\* the start and one step resolves them.

\* 0, 0.5, 2.7, "2", "0.5", "abc", float('inf')
ParamValues == {PNone, Num(0), Num(5), Num(27), NumStr(20), NumStr(5), BadStr, Inf}
ParamKeys ==
    {"max_length", "max_new_tokens", "temperature", "top_p", "top_k", "repetition_penalty"}
\* Calls that pass at most two of the parameters.
ParamInputs ==
    { [k \in ParamKeys |-> IF k = a THEN x ELSE IF k = b THEN y ELSE PNone] :
        a \in ParamKeys, b \in ParamKeys, x \in ParamValues, y \in ParamValues }

InitParams ==
    /\ Constructed
    /\ unload_unused = FALSE
    /\ sg = NoStream
    /\ bt = NoBatch
    /\ ci = NoChat
    /\ cr = NoCacheRun
    /\ ao = NoOpt
    /\ qc = NoQuant
    /\ cs = NoClientStream
    /\ pres \in { [phase |-> "args", q |-> q, cm |-> cm, sys |-> sys, res |-> None,
                     sres |-> None] :
                    q \in ParamInputs, cm \in RegistryIds, sys \in {None, "be brief"} }

\* async_stream_generate's instructions (lines 691-693): system_prompt is
\* not rebound by the import, so the caller's value is used when given; the
\* instructions of the model otherwise.
stream_instructions(system_prompt, cm) ==
    IF Truthy(system_prompt) THEN system_prompt ELSE SystemInstructionsStr

\* The parameters _stream_generate decodes with for a generate_stream call
\* (async_stream_generate lines 699-727, then the gen_params.get defaults of
\* lines 522-528).  A parameter that is None counts as not passed; the values
\* passed are stored as they are, with no int() or float().
stream_resolve(q, cm) ==
    LET g0 == get_model_generation_params(cm)
        g1 == IF ~PyTruthy(q.max_length) /\ ~PyTruthy(q.max_new_tokens)
              THEN [g0 EXCEPT !.max_length =
                        PyMin(DictGet(g0.max_length, Num(DEFAULT_MAX_LENGTH)), Num(Tenths(512)))]
              ELSE g0
        g2 == IF ~PyTruthy(q.temperature)
              THEN [g1 EXCEPT !.temperature =
                        PyMin(DictGet(g1.temperature, Num(DEFAULT_TEMPERATURE)), Num(7))]
              ELSE g1
        g3 == IF ~PyTruthy(q.top_k) THEN [g2 EXCEPT !.top_k = Num(Tenths(40))] ELSE g2
        g4 == IF ~PyTruthy(q.repetition_penalty)
              THEN [g3 EXCEPT !.repetition_penalty = Num(11)] ELSE g3
        max_length == IF q.max_new_tokens # PNone THEN q.max_new_tokens ELSE q.max_length
        put(old, p) == IF p = PNone THEN old ELSE p
    IN [ r |-> "ok",
         gp |-> [ max_length |-> DictGet(put(g4.max_length, max_length), Num(DEFAULT_MAX_LENGTH)),
                  temperature |-> DictGet(put(g4.temperature, q.temperature),
                                          Num(DEFAULT_TEMPERATURE)),
                  top_p |-> DictGet(put(g4.top_p, q.top_p), Num(DEFAULT_TOP_P)),
                  top_k |-> DictGet(put(g4.top_k, q.top_k), Num(Tenths(40))),
                  repetition_penalty |->
                      DictGet(put(g4.repetition_penalty, q.repetition_penalty), Num(11)) ] ]

\* generate, lines 370-417, with current_model = pres.cm, and what a
\* generate_stream call with the same arguments resolves.
Resolve ==
    /\ pres.phase = "args"
    /\ pres' = [pres EXCEPT !.phase = "resolved",
                            !.res = ResolveParams(pres.q, pres.cm),
                            !.sres = stream_resolve(pres.q, pres.cm)]
    /\ UNCHANGED <<mm, task, now, unload_unused, ret, reaps, sg, bt, ci, cr, ao, qc, cs>>

NextParams == Resolve

SpecParams == InitParams /\ [][NextParams]_vars

\* ------------------------------------------------------------------
\* Streaming: _stream_generate consumed by improved_stream_generator.
\* Text is a sequence of characters.

\* The longest max_length (in tokens) a stream is started with.
MaxStreamLength == 6

stop_sequences ==
    << <<"<", "/", "s", ">">>,
       <<"<", "|", "e", "n", "d", "o", "f", "t", "e", "x", "t", "|", ">">>,
       <<"<", "|", "i", "m", "_", "e", "n", "d", "|", ">">>,
       <<"<", "|", "a", "s", "s", "i", "s", "t", "a", "n", "t", "|", ">">> >>

\* s occurs in t at position i
Occurs(t, s, i) == i + Len(s) - 1 <= Len(t) /\ SubSeq(t, i, i + Len(s) - 1) = s
\* `s in t`
Contains(t, s) == \E i \in 1..Len(t) : Occurs(t, s, i)
\* t.split(s)[0]
SplitFirst(t, s) ==
    IF Contains(t, s)
    THEN LET i == CHOOSE n \in 1..Len(t) :
                     Occurs(t, s, n) /\ \A j \in 1..(n - 1) : ~Occurs(t, s, j)
         IN SubSeq(t, 1, i - 1)
    ELSE t
\* `not new_text or new_text.isspace()`
Blank_empty_only(t) == t = << >>

Blank(t) == \A i \in 1..Len(t) : t[i] = " "
\* `for stop_seq in stop_sequences: if stop_seq in text`
HasStop(t) == \E k \in 1..Len(stop_sequences) : Contains(t, stop_sequences[k])
\* improved_stream_generator: the text cut at the first stop sequence of the
\* list that it contains
Truncate(t) ==
    IF HasStop(t)
    THEN LET k == CHOOSE n \in 1..Len(stop_sequences) :
                     /\ Contains(t, stop_sequences[n])
                     /\ \A j \in 1..(n - 1) : ~Contains(t, stop_sequences[j])
         IN SplitFirst(t, stop_sequences[k])
    ELSE t

\* _stream_generate's repetition check on the last 50 characters
REPEAT_WINDOW == 50
PATTERN_MIN == 10
PATTERN_END == 20
Repetition(t) ==
    /\ Len(t) > REPEAT_WINDOW
    /\ LET last == SubSeq(t, Len(t) - REPEAT_WINDOW + 1, Len(t))
       IN \E n \in PATTERN_MIN..(PATTERN_END - 1) :
             /\ n < Len(last) \div 2
             /\ Contains(SubSeq(last, 1, Len(last) - n),
                         SubSeq(last, Len(last) - n + 1, Len(last)))

\* What one decode of a step may return: nothing, whitespace, plain text, a
\* stop marker split over two steps, a marker inside one step's text with
\* text after it, and a long text (13 characters).
Chunks ==
    { << >>, <<" ">>, <<"a">>, <<"<", "/">>, <<"s", ">">>,
      <<"a", "<", "/", "s", ">", "b">>,
      <<"a", "a", "a", "a", "a", "a", "a", "a", "a", "a", "a", "a", "a">> }

\* The stream generate returns for gen_params["max_length"] = n.  chunks:
\* what the consumer has been handed, one entry per yield; delivered: their
\* concatenation.  how: why the stream ended.  requests: the max_new_tokens
\* of the decode calls of the last iteration (two when the first ran out of
\* memory); after_oom: an iteration before the last ran out of memory.
\* iterations: the iterations of the loop begun; decodes: the calls of
\* self.model.generate; budget: the sum, over the iterations, of the
\* max_new_tokens of the call that produced the iteration's text.
StartStream(n) ==
    [ phase |-> "run", max_length |-> n, step |-> 0, tokens_per_step |-> 2,
      generated_text |-> << >>, accumulated_text |-> << >>, delivered |-> << >>,
      chunks |-> << >>, how |-> None, via |-> "generate",
      requests |-> << >>, oomed |-> FALSE, after_oom |-> FALSE,
      iterations |-> 0, decodes |-> 0, budget |-> 0 ]

\* A ModelManager on which load_model(id) has succeeded, at time 0.
Loaded(id) == load_weights(load_tokenizer(NewModelManager(0), id), id)

\* The async generator before its first iteration.  via: who made it:
\* generate(stream=True), which prepared inputs and gen_params itself (a
\* model is loaded), or generate_stream, which passes the prompt on to
\* async_stream_generate (a model is loaded, or none is).  generate has
\* run check_model_timeout and assigned last_used = time.time() (lines
\* 346-351) before it makes the generator; generate_stream has done nothing.
OpenStream(n, via) == [StartStream(n) EXCEPT !.phase = "open", !.via = via]

InitStream ==
    /\ task = [p \in Procs |-> IdleTask]
    /\ ret = R0("init")
    /\ reaps = 0
    /\ unload_unused = TRUE
    /\ pres = NoResolve
    /\ bt = NoBatch
    /\ ci = NoChat
    /\ cr = NoCacheRun
    /\ ao = NoOpt
    /\ qc = NoQuant
    /\ cs = NoClientStream
    /\ now \in 0..MaxTime
    /\ \E n \in 1..MaxStreamLength, via \in {"generate", "generate_stream"} :
          /\ sg = OpenStream(n, via)
          /\ mm \in IF via = "generate"
                     THEN {[Loaded(DEFAULT_MODEL) EXCEPT !.last_use = now]}
                     ELSE {Loaded(DEFAULT_MODEL), NewModelManager(0)}

\* The stream is over: a break or the end of the loop in _stream_generate,
\* or a break in improved_stream_generator.
StreamEnd(g, how) == [g EXCEPT !.phase = "done", !.how = how]

\* One iteration of _stream_generate's loop, and of the loop of
\* improved_stream_generator that consumes what it yields.  new_text is the
\* decoded text; oom: the first decode call raised CUDA out of memory and
\* new_text comes from the retry, after which nothing is checked before the
\* yield.  The range of the loop is fixed when the loop starts: step goes up
\* by 2 whatever tokens_per_step becomes.
\* current_tokens_to_generate = min(tokens_to_generate_per_step, max_length - step)
current_tokens_to_generate_first_size(g) ==
    IF 2 <= g.max_length - g.step THEN 2 ELSE g.max_length - g.step

current_tokens_to_generate(g) ==
    IF g.tokens_per_step <= g.max_length - g.step
    THEN g.tokens_per_step
    ELSE g.max_length - g.step

\* The decode calls of an iteration: one with current_tokens_to_generate,
\* and after CUDA out of memory the handler's (lines 647-660), which sets
\* tokens_to_generate_per_step = 1 and calls again with max_new_tokens = 1.
stream_requests(g, oom) ==
    [g EXCEPT !.requests = IF oom THEN <<current_tokens_to_generate(g), 1>>
                           ELSE <<current_tokens_to_generate(g)>>,
              !.tokens_per_step = IF oom THEN 1 ELSE @,
              !.after_oom = g.oomed,
              !.oomed = @ \/ oom,
              !.iterations = @ + 1,
              !.decodes = @ + (IF oom THEN 2 ELSE 1),
              !.budget = @ + (IF oom THEN 1 ELSE current_tokens_to_generate(g))]

\* `for step in range(0, max_length, tokens_to_generate_per_step)`: the
\* range is made once, with tokens_to_generate_per_step = 2.
next_step_by_tokens_per_step(g) == g.step + g.tokens_per_step

next_step(g) == g.step + 2

stream_iteration(g, new_text, oom) ==
    LET g0 == stream_requests(g, oom)
    IN IF new_text = << >> \/ Blank(new_text)
       THEN StreamEnd(g0, "empty")
       ELSE LET generated == g0.generated_text \o new_text
                should_stop == ~oom /\ (HasStop(generated) \/ Repetition(generated))
                accumulated == g0.accumulated_text \o new_text
                g1 == [g0 EXCEPT !.generated_text = generated,
                                 !.accumulated_text = Truncate(accumulated),
                                 !.delivered = @ \o new_text,
                                 !.chunks = Append(@, new_text)]
            IN IF HasStop(accumulated)
               THEN StreamEnd(g1, "stop")
               ELSE IF Len(g1.accumulated_text) > g1.max_length * 4
               THEN StreamEnd(g1, "cutoff")
               ELSE IF should_stop
               THEN StreamEnd(g1, "repetition")
               ELSE IF next_step(g1) >= g1.max_length
               THEN StreamEnd([g1 EXCEPT !.step = next_step(g1)], "exhausted")
               ELSE [g1 EXCEPT !.step = next_step(g1)]

StreamStep(new_text, oom) ==
    /\ sg.phase = "run"
    /\ sg' = stream_iteration(sg, new_text, oom)
    /\ UNCHANGED <<mm, task, now, unload_unused, ret, reaps, pres, bt, ci, cr, ao, qc, cs>>

\* The first iteration, up to the loop of improved_stream_generator.  With
\* a prompt (lines 690-737), async_stream_generate formats it, resolves the
\* parameters, calls self.tokenizer and reads self.model.parameters(), none
\* of it inside a try: an exception there reaches the consumer.  It does
\* not call check_model_timeout and does not assign last_used.  prep_ok:
\* the tokenizer call does not raise.
stream_open(g, m, prep_ok) ==
    IF g.via = "generate"
    THEN [g EXCEPT !.phase = "run"]
    ELSE IF m.tokenizer = None \/ m.model \in {None, Deleted} \/ ~prep_ok
         THEN StreamEnd(g, "raised")
         ELSE [g EXCEPT !.phase = "run"]

StreamOpen(prep_ok) ==
    /\ sg.phase = "open"
    /\ sg' = stream_open(sg, mm, prep_ok)
    /\ UNCHANGED <<mm, task, now, unload_unused, ret, reaps, pres, bt, ci, cr, ao, qc, cs>>

\* A decode call raises (not out of memory, or the retry raises):
\* _stream_generate raises HTTPException, improved_stream_generator logs it
\* and ends the stream.
StreamRaise ==
    /\ sg.phase = "run"
    /\ \E oom \in BOOLEAN : sg' = StreamEnd(stream_requests(sg, oom), "error")
    /\ UNCHANGED <<mm, task, now, unload_unused, ret, reaps, pres, bt, ci, cr, ao, qc, cs>>

NextStream ==
    \/ \E prep_ok \in BOOLEAN : StreamOpen(prep_ok)
    \/ \E new_text \in Chunks, oom \in BOOLEAN : StreamStep(new_text, oom)
    \/ StreamRaise

SpecStream == InitStream /\ [][NextStream]_vars

\* ------------------------------------------------------------------
\* The /generate/batch route of main.py, served with no other handler
\* running.

MaxBatch == 3

\* A whole generate call (lines 345-508), its lazy load included.  load_ok:
\* the load of DEFAULT_MODEL, if the call makes one, does not raise.
generate_call(m, flag, t, prompt, q, load_ok, outcome, text) ==
    LET r == [R0("generate") EXCEPT !.prompt = prompt, !.status = "error"]
    IN IF CheckRaises(m, flag)
       THEN [mm |-> m, ret |-> r]
       ELSE LET m1 == check_model_timeout(m, flag, t).mm
            IN IF m1.model = Deleted
               THEN [mm |-> m1, ret |-> r]
               ELSE IF ~Truthy(m1.model) \/ ~Truthy(m1.tokenizer)
               THEN LET e == load_model_entry(m1, DEFAULT_MODEL)
                    IN IF e.out # "go"
                       THEN [mm |-> e.mm, ret |-> r]
                       ELSE IF ~load_ok
                       THEN [mm |-> load_raise(e.mm), ret |-> r]
                       ELSE GenBody(load_weights(load_tokenizer(e.mm, DEFAULT_MODEL),
                                                 DEFAULT_MODEL),
                                    t, prompt, None, q, FALSE, outcome, text)
               ELSE GenBody(m1, t, prompt, None, q, FALSE, outcome, text)

\* BatchGenerateRequest: prompts, model_id, and temperature and top_p, which
\* are floats with defaults 0.7 and 0.9 (max_length left None).
BatchParams(temperature, top_p) ==
    [NoParams EXCEPT !.temperature = Num(temperature), !.top_p = Num(top_p)]

BatchRequests ==
    { [ phase |-> "start", prompts |-> ps, model_id |-> id, q |-> q, i |-> 1,
        calls |-> << >>, responses |-> << >>, returned |-> FALSE, value |-> << >>,
        found |-> None ] :
        ps \in UNION { [1..n -> {"p1", "p2"}] : n \in 0..MaxBatch },
        id \in {None} \cup RegistryIds,
        q \in {BatchParams(7, 9), BatchParams(0, 0)} }

InitBatch ==
    /\ task = [p \in Procs |-> IdleTask]
    /\ ret = R0("init")
    /\ reaps = 0
    /\ unload_unused \in BOOLEAN
    /\ pres = NoResolve
    /\ sg = NoStream
    /\ now \in {0, MaxTime}
    /\ mm \in {NewModelManager(0), Loaded(DEFAULT_MODEL)}
    /\ bt \in BatchRequests
    /\ ci = NoChat
    /\ cr = NoCacheRun
    /\ ao = NoOpt
    /\ qc = NoQuant
    /\ cs = NoClientStream

\* raise HTTPException(500): the route returns no body of responses.
BatchFail(b) == [b EXCEPT !.phase = "failed", !.returned = FALSE, !.value = << >>]

\* load_model(id) run to its end.  load: the from_pretrained call that
\* raises (tok: the tokenizer's, mdl: the weights'), or ok.
LoadOuts == {"ok", "tok", "mdl"}

load_model_call(m, id, load) ==
    LET e == load_model_entry(m, id)
    IN IF e.out # "go" THEN e
       ELSE CASE load = "tok" -> [mm |-> load_raise(e.mm), out |-> "error"]
              [] load = "mdl" -> [mm |-> load_raise(load_tokenizer(e.mm, id)), out |-> "error"]
              [] OTHER -> [mm |-> load_weights(load_tokenizer(e.mm, id), id), out |-> "ok"]

\* ModelManager.is_model_loaded
is_model_loaded(m, id) ==
    IF m.model = Deleted THEN "AttributeError"
    ELSE IF m.model # None /\ m.current_model = id THEN "True" ELSE "False"

\* `if request.model_id and request.model_id != model_manager.current_model:
\* await model_manager.load_model(request.model_id)`.  found: the id of the
\* model that was resident when the route was entered.
BatchStart(load) ==
    /\ bt.phase = "start"
    /\ LET b == [bt EXCEPT !.found = IF Truthy(mm.model) THEN mm.current_model ELSE None]
       IN IF Truthy(bt.model_id) /\ bt.model_id # mm.current_model
          THEN LET l == load_model_call(mm, bt.model_id, load)
               IN /\ mm' = Settle(mm, l.mm)
                  /\ bt' = IF l.out = "ok" THEN [b EXCEPT !.phase = "gen"] ELSE BatchFail(b)
          ELSE mm' = mm /\ bt' = [b EXCEPT !.phase = "gen"]
    /\ UNCHANGED <<task, now, unload_unused, ret, reaps, pres, sg, ci, cr, ao, qc, cs>>

\* responses.append(response)
batch_append_first(responses, response) == <<response>> \o responses

batch_append(responses, response) == Append(responses, response)

\* One turn of `for prompt in request.prompts`: the generate call and the
\* append.  A response records the prompt its generate call was made with.
BatchGenerate(load_ok, outcome, text) ==
    /\ bt.phase = "gen"
    /\ bt.i <= Len(bt.prompts)
    /\ LET prompt == bt.prompts[bt.i]
           g == generate_call(mm, unload_unused, now, prompt, bt.q, load_ok, outcome, text)
           b == [bt EXCEPT !.calls = Append(@, prompt)]
       IN /\ mm' = Settle(mm, g.mm)
          /\ ret' = g.ret
          /\ bt' = IF g.ret.status = "ok"
                   THEN [b EXCEPT !.i = @ + 1,
                                  !.responses = batch_append(@, [prompt |-> g.ret.prompt,
                                                                 text |-> g.ret.text])]
                   ELSE BatchFail(b)
    /\ UNCHANGED <<task, now, unload_unused, reaps, pres, sg, ci, cr, ao, qc, cs>>

\* return {"responses": responses}
BatchReturn ==
    /\ bt.phase = "gen"
    /\ bt.i > Len(bt.prompts)
    /\ bt' = [bt EXCEPT !.phase = "done", !.returned = TRUE, !.value = bt.responses]
    /\ UNCHANGED <<mm, task, now, unload_unused, ret, reaps, pres, sg, ci, cr, ao, qc, cs>>

BatchOuts ==
    {<<"ok", "t1">>, <<"ok", "t2">>, <<"error", "t1">>, <<"oom_ok", "t1">>,
     <<"oom_error", "t1">>}

NextBatch ==
    \/ \E load \in LoadOuts : BatchStart(load)
    \/ \E load_ok \in BOOLEAN, o \in BatchOuts : BatchGenerate(load_ok, o[1], o[2])
    \/ BatchReturn

SpecBatch == InitBatch /\ [][NextBatch]_vars

\* ------------------------------------------------------------------
\* ChatInterface of cli/chat.py: connect and disconnect.  detect_local_server,
\* test_connection and ServerConnection come from cli/connection.py: each
\* call returns or raises.

Urls == {"http://given", "http://localhost:8000"}

\* ServerConnection(url), before and after its connect() has returned, and
\* the None that ChatInterface.connection holds when there is none.
ServerConnection(url, open) == [url |-> url, open |-> open]
NoConnection == [url |-> None, open |-> FALSE]

\* class GenerationMode
GenerationModes == {"stream", "simple", "chat", "batch"}

\* ChatInterface.__init__; result: what the last call returned (or raised).
NewChatInterface(url, mode) ==
    [ phase |-> "chat", url |-> url, mode |-> mode,
      connected |-> FALSE, connection |-> NoConnection,
      server_info |-> None, model_info |-> None, op |-> "init", result |-> None ]

\* What test_connection hands back as info when it succeeds.
ConnectionInfos ==
    { [server_info |-> si, model_info |-> mi] :
        si \in {None, "server"}, mi \in {None, "model"} }

\* ChatInterface.connect.  detected: what detect_local_server returns (a
\* url, None) or "raise"; test: what test_connection does (ok, fail,
\* raise); open: what ServerConnection.connect does (ok, raise).  The value
\* is the ChatInterface after the call, result being what connect returned.
connect(c, detected, test, info, open) ==
    LET c0 == [c EXCEPT !.op = "connect"]
    IN IF ~Truthy(c0.url) /\ detected \in {None, "raise"}
       THEN [c0 EXCEPT !.result = "False"]
       ELSE LET c1 == [c0 EXCEPT !.url = IF Truthy(c0.url) THEN c0.url ELSE detected]
            IN IF test \in {"fail", "raise"}
               THEN [c1 EXCEPT !.result = "False"]
               ELSE LET c2 == [c1 EXCEPT !.server_info = info.server_info,
                                         !.model_info = info.model_info,
                                         !.connection = ServerConnection(c1.url, FALSE)]
                    IN IF open = "raise"
                       THEN [c2 EXCEPT !.result = "False"]
                       ELSE [c2 EXCEPT !.connection = ServerConnection(c1.url, TRUE),
                                       !.connected = TRUE,
                                       !.result = "True"]

\* ChatInterface.disconnect.  close: what ServerConnection.disconnect does.
disconnect(c, close) ==
    LET c0 == [c EXCEPT !.op = "disconnect"]
    IN IF c0.connection # NoConnection
       THEN IF close = "raise"
            THEN [c0 EXCEPT !.result = "raise"]
            ELSE [c0 EXCEPT !.connection = NoConnection, !.connected = FALSE,
                            !.result = None]
       ELSE [c0 EXCEPT !.connected = FALSE, !.result = None]

InitChat ==
    /\ Constructed
    /\ unload_unused = FALSE
    /\ pres = NoResolve
    /\ sg = NoStream
    /\ bt = NoBatch
    /\ ci \in { NewChatInterface(url, mode) :
                  url \in {None, "http://given"}, mode \in GenerationModes }
    /\ cr = NoCacheRun
    /\ ao = NoOpt
    /\ qc = NoQuant
    /\ cs = NoClientStream

Connect(detected, test, info, open) ==
    /\ ci' = connect(ci, detected, test, info, open)
    /\ UNCHANGED <<mm, task, now, unload_unused, ret, reaps, pres, sg, bt, cr, ao, qc, cs>>

Disconnect(close) ==
    /\ ci' = disconnect(ci, close)
    /\ UNCHANGED <<mm, task, now, unload_unused, ret, reaps, pres, sg, bt, cr, ao, qc, cs>>

NextChat ==
    \/ \E detected \in {None, "raise"} \cup Urls, test \in {"ok", "fail", "raise"},
          info \in ConnectionInfos, open \in {"ok", "raise"} :
          Connect(detected, test, info, open)
    \/ \E close \in {"ok", "raise"} : Disconnect(close)

SpecChat == InitChat /\ [][NextChat]_vars

\* ------------------------------------------------------------------
\* The response cache near its size limit: cacheable generate calls (no
\* parameter, stream=False) that decode without error, under one model.  A
\* prompt is given by the hash of its formatted prompt.

MaxCalls == 3

\* The hashes of the prompts asked: the oldest entries, the entries at the
\* edge of the batch that is evicted, the newest, and prompts not asked yet.
HashInputs ==
    {1, EVICT_BATCH, EVICT_BATCH + 1} \cup
    ((CACHE_LIMIT - 1)..(CACHE_LIMIT + MaxCalls))

\* The cache after n such calls for prompts of hashes 1..n.
Filled(n) ==
    [h \in 1..n |-> [key |-> <<DEFAULT_MODEL, h>>, text |-> "t1",
                      under |-> DEFAULT_MODEL, stale |-> FALSE]]

\* generate, lines 362-368 and 494-501, for cache key k and decoded response
\* text: the hit returns the stored text and changes nothing.  cr.key is
\* the key of the last call and cr.hits the hashes that calls have hit.
cached_generate(m, k, text) ==
    LET r == [R0("generate") EXCEPT !.cm = m.current_model, !.cacheable = TRUE]
    IN IF CacheHas(m.response_cache, k)
       THEN [mm |-> m,
             ret |-> [r EXCEPT !.hit = TRUE, !.text = CacheGet(m.response_cache, k).text,
                               !.under = CacheGet(m.response_cache, k).under]]
       ELSE [mm |-> [m EXCEPT !.response_cache =
                        CachePut(@, [key |-> k, text |-> text,
                                     under |-> m.current_model, stale |-> FALSE])],
             ret |-> [r EXCEPT !.text = text, !.decodes = 1]]

InitCache ==
    /\ task = [p \in Procs |-> IdleTask]
    /\ now = 0
    /\ ret = R0("init")
    /\ reaps = 0
    /\ unload_unused = FALSE
    /\ pres = NoResolve
    /\ sg = NoStream
    /\ bt = NoBatch
    /\ ci = NoChat
    /\ cr = [phase |-> "cache", calls |-> 0, key |-> <<DEFAULT_MODEL, 0>>, hits |-> {}]
    /\ ao = NoOpt
    /\ qc = NoQuant
    /\ cs = NoClientStream
    /\ \E n \in (CACHE_LIMIT - 2)..CACHE_LIMIT :
          mm = [Loaded(DEFAULT_MODEL) EXCEPT !.response_cache = Filled(n)]

CachedGenerate(h, text) ==
    /\ cr.phase = "cache"
    /\ cr.calls < MaxCalls
    /\ LET g == cached_generate(mm, <<mm.current_model, h>>, text)
       IN /\ mm' = g.mm
          /\ ret' = g.ret
          /\ cr' = [cr EXCEPT !.calls = @ + 1, !.key = <<mm.current_model, h>>,
                               !.hits = IF g.ret.hit THEN @ \cup {h} ELSE @]
    /\ UNCHANGED <<task, now, unload_unused, reaps, pres, sg, bt, ci, ao, qc, cs>>

NextCache == \E h \in HashInputs, text \in Texts : CachedGenerate(h, text)

SpecCache == InitCache /\ [][NextCache]_vars

\* ------------------------------------------------------------------
\* ModelManager._apply_optimizations

\* What get_config_value returns for a flag: a bool (the default from
\* config.py) or a string (an environment variable, the config file).
Bool(b) == [t |-> "bool", b |-> b, s |-> ""]
Str(s) == [t |-> "str", b |-> FALSE, s |-> s]
\* str.lower(), for the strings used here.
Lower(s) ==
    CASE s = "False" -> "false"
      [] s = "NONE" -> "none"
      [] s = "INT8" -> "int8"
      [] OTHER -> s
\* if isinstance(flag, str): flag = flag.lower() not in ('false', '0', 'none', '')
Enabled(x) ==
    IF x.t = "str" THEN Lower(x.s) \notin {"false", "0", "none", ""} ELSE x.b

\* The transforms in the order of the code.  The first four have a flag.
OptSteps ==
    << "attention_slicing", "cpu_offload", "bettertransformer", "flash_attention",
       "xformers", "gradient_checkpointing" >>
Toggled == {"attention_slicing", "cpu_offload", "bettertransformer", "flash_attention"}
\* The steps whose call is inside a try block of its own.
OwnTry == {"bettertransformer", "flash_attention", "xformers", "gradient_checkpointing"}

\* BetterTransformer.transform(model)
BetterTransformer(model) == <<"BetterTransformer", model>>

\* What the call of a step does: ok, absent (hasattr is false: the step is
\* logged as not available and not called), ImportError, Exception.
Raises(out) == out \in {"ImportError", "Exception"}

\* The handler of the outer try: `except Exception`, of which ImportError
\* is a subclass.
outer_catches_import_only(exc) == exc = "ImportError"

outer_catches(exc) == exc \in {"ImportError", "Exception"}

\* One step, for the locals s left by the steps before it.  exc: the
\* exception on its way to the outer handler (None: none), after which no
\* statement of the try block runs.  tried: the transforms called.
opt_step(s, name, flags, outs) ==
    IF s.exc # None \/ (name \in Toggled /\ ~Enabled(flags[name])) \/ outs[name] = "absent"
    THEN s
    ELSE LET s1 == [s EXCEPT !.tried = Append(@, name)]
         IN IF Raises(outs[name])
            THEN IF name \in OwnTry THEN s1 ELSE [s1 EXCEPT !.exc = outs[name]]
            ELSE IF name = "bettertransformer"
                 THEN [s1 EXCEPT !.model = BetterTransformer(@)]
                 ELSE s1

RECURSIVE opt_steps(_, _, _, _)
opt_steps(s, i, flags, outs) ==
    IF i > Len(OptSteps) THEN s
    ELSE opt_steps(opt_step(s, OptSteps[i], flags, outs), i + 1, flags, outs)

\* _apply_optimizations(model): the steps, model.eval(), return model; an
\* exception that reaches the outer handler is logged and model returned.
\* raised: the exception that leaves the function.  eval: model.eval() was
\* called and returned.
apply_optimizations(model, flags, outs) ==
    LET s0 == [model |-> model, tried |-> << >>, exc |-> None]
        s == opt_steps(s0, 1, flags, outs)
        exc == IF s.exc # None THEN s.exc
               ELSE IF Raises(outs.eval) THEN outs.eval ELSE None
    IN [ model |-> s.model, tried |-> s.tried,
         eval |-> s.exc = None /\ outs.eval = "ok",
         raised |-> IF exc # None /\ ~outer_catches(exc) THEN exc ELSE None ]

\* Settings and step outcomes of one call.
FlagValues == {Bool(TRUE), Bool(FALSE), Str("False"), Str("1")}
OptFlags ==
    { [attention_slicing |-> a, cpu_offload |-> Bool(b), bettertransformer |-> Bool(c),
       flash_attention |-> Bool(d)] : a \in FlagValues, b, c, d \in BOOLEAN }
OptOuts ==
    [ attention_slicing : {"ok", "absent", "Exception"},
      cpu_offload : {"ok", "Exception"},
      bettertransformer : {"ok", "ImportError", "Exception"},
      flash_attention : {"ok", "ImportError"},
      xformers : {"ok", "Exception"},
      gradient_checkpointing : {"ok", "absent"},
      eval : {"ok", "Exception"} ]

InitOpt ==
    /\ Constructed
    /\ unload_unused = FALSE
    /\ pres = NoResolve
    /\ sg = NoStream
    /\ bt = NoBatch
    /\ ci = NoChat
    /\ cr = NoCacheRun
    /\ qc = NoQuant
    /\ cs = NoClientStream
    /\ ao \in { [phase |-> "args", flags |-> f, outs |-> o, res |-> None] :
                  f \in OptFlags, o \in OptOuts }

ApplyOptimizations ==
    /\ ao.phase = "args"
    /\ ao' = [ao EXCEPT !.phase = "done",
                        !.res = apply_optimizations(<<"model">>, ao.flags, ao.outs)]
    /\ UNCHANGED <<mm, task, now, unload_unused, ret, reaps, pres, sg, bt, ci, cr, qc, cs>>

NextOpt == ApplyOptimizations

SpecOpt == InitOpt /\ [][NextOpt]_vars

\* ------------------------------------------------------------------
\* ModelManager._get_quantization_config

\* The load configs it returns: torch_dtype float32 or float16 with no
\* quantization_config, or a BitsAndBytesConfig for 8 or 4 bits.
FullPrecision == [torch_dtype |-> "float32", quantization_config |-> None]
HalfPrecision == [torch_dtype |-> "float16", quantization_config |-> None]
Quantized(bits) == [torch_dtype |-> None, quantization_config |-> bits]

\* `torch.float16 if torch.cuda.is_available() else torch.float32`
DefaultPrecision(cuda) == IF cuda THEN HalfPrecision ELSE FullPrecision

\* `import bitsandbytes as bnb` and the version test: ok, old (a version
\* below 0.41.1), ImportError, RuntimeError (the import raises it when the
\* package finds no usable CUDA library).
BnbOuts == {"ok", "old", "ImportError", "RuntimeError"}

\* The handler of the try block around the import and the scheme tests.
quant_catches(exc) == exc = "ImportError"

\* raised: the exception that leaves the function (None: it returned config).
get_quantization_config(cuda, enable_quantization, quantization_type, bnb) ==
    LET ret_(c) == [raised |-> None, config |-> c]
    IN IF ~cuda THEN ret_(FullPrecision)
       ELSE IF ~Enabled(enable_quantization) THEN ret_(DefaultPrecision(cuda))
       ELSE IF bnb \in {"ImportError", "RuntimeError"}
            THEN IF quant_catches(bnb) THEN ret_(DefaultPrecision(cuda))
                 ELSE [raised |-> bnb, config |-> None]
       ELSE IF bnb = "old" THEN ret_(DefaultPrecision(cuda))
       ELSE IF quantization_type \in {None, ""} \/ Lower(quantization_type) \in {"none", ""}
            THEN ret_(DefaultPrecision(cuda))
       ELSE IF quantization_type = "int8" THEN ret_(Quantized(8))
       ELSE IF quantization_type = "int4" THEN ret_(Quantized(4))
       ELSE ret_(DefaultPrecision(cuda))

\* The quantization_type setting: unset, empty, and scheme names.
QuantTypes == {None, "", "NONE", "int8", "int4", "INT8", "fp4"}

InitQuant ==
    /\ Constructed
    /\ unload_unused = FALSE
    /\ pres = NoResolve
    /\ sg = NoStream
    /\ bt = NoBatch
    /\ ci = NoChat
    /\ cr = NoCacheRun
    /\ ao = NoOpt
    /\ cs = NoClientStream
    /\ qc \in { [phase |-> "args", cuda |-> c, enable_quantization |-> e,
                 quantization_type |-> q, bnb |-> b, res |-> None] :
                  c \in BOOLEAN, e \in FlagValues, q \in QuantTypes, b \in BnbOuts }

GetQuantizationConfig ==
    /\ qc.phase = "args"
    /\ qc' = [qc EXCEPT !.phase = "done",
                        !.res = get_quantization_config(qc.cuda, qc.enable_quantization,
                                                        qc.quantization_type, qc.bnb)]
    /\ UNCHANGED <<mm, task, now, unload_unused, ret, reaps, pres, sg, bt, ci, cr, ao, cs>>

NextQuant == GetQuantizationConfig

SpecQuant == InitQuant /\ [][NextQuant]_vars

\* ------------------------------------------------------------------
\* LocalLabClient.stream_generate (client/python_client/client.py)

\* The default of the retry_count argument.
RETRY_COUNT == 2

\* Bodies the server may stream for the request, as the lines of
\* response.content: an SSE stream closed by [DONE], a body that ends
\* without the marker, an empty body, and bodies with an error line.
Responses ==
    { << "data: a\n", "\n", "b\n", "data: [DONE]\n" >>,
      << "data: a\n", "data: b\n" >>,
      << >>,
      << "data: a\n", "Error: boom\n" >>,
      << "data: a\n", "data: Error: timeout\n" >> }

\* line.decode("utf-8").strip(), then the "data: " prefix removed.
LineText(line) ==
    CASE line = "data: a\n" -> "a"
      [] line = "data: b\n" -> "b"
      [] line = "b\n" -> "b"
      [] line = "\n" -> ""
      [] line = "data: [DONE]\n" -> "[DONE]"
      [] line = "Error: boom\n" -> "Error: boom"
      [] line = "data: Error: timeout\n" -> "Error: timeout"
      [] OTHER -> line

\* text.startswith("\nError:") or text.startswith("Error:")
IsErrorText(text) == text \in {"Error: boom", "Error: timeout"}
\* "timeout" in error_msg.lower()
SaysTimeout(text) == text = "Error: timeout"

\* The generator before its first iteration.  attempt: the POSTs answered
\* with status 200; pos: the lines of the current body read; chunks: what
\* the consumer has been handed, each with the attempt and the line it
\* comes from (line 0: an error message made by the client).
StartClientStream(response) ==
    [ phase |-> "post", response |-> response, retries |-> 0, attempt |-> 0,
      pos |-> 0, received_data |-> FALSE, chunks |-> << >> ]

Yield(c, line, text) ==
    [c EXCEPT !.chunks = Append(@, [attempt |-> c.attempt, line |-> line, text |-> text])]

\* `yield f"\nError: ..."; break`, and the normal end of the stream.
ClientFail(c) == [Yield(c, 0, "Error") EXCEPT !.phase = "done"]
ClientDone(c) == [c EXCEPT !.phase = "done"]

\* The handlers that retry: retries += 1, the error yielded when no retry
\* is left, then `continue`: the while loop posts the request again.
client_retry(c) ==
    LET r == c.retries + 1
    IN IF r > RETRY_COUNT
       THEN ClientFail([c EXCEPT !.retries = r])
       ELSE [c EXCEPT !.retries = r, !.phase = "post"]

\* connect() and the POST.  out: ok (status 200), status (any other
\* status: raise Exception, caught by the last handler), timeout
\* (asyncio.TimeoutError), client_error (aiohttp.ClientError).
PostOuts == {"ok", "status", "timeout", "client_error"}

client_post(c, out) ==
    CASE out = "ok" -> [c EXCEPT !.phase = "read", !.attempt = @ + 1, !.pos = 0,
                                 !.received_data = FALSE]
      [] out = "status" -> ClientFail(c)
      [] OTHER -> client_retry(c)

\* One turn of `async for line in response.content`, or its end.
client_read(c) ==
    IF c.pos = Len(c.response)
    THEN IF c.received_data THEN ClientDone(c) ELSE ClientFail(c)
    ELSE LET n == c.pos + 1
             text == LineText(c.response[n])
             c1 == [c EXCEPT !.pos = n, !.received_data = TRUE]
         IN IF text = "" THEN c1
            ELSE IF text = "[DONE]" THEN ClientDone(c1)
            ELSE IF IsErrorText(text)
                 THEN IF SaysTimeout(text) THEN client_retry(c1) ELSE ClientFail(c1)
                 ELSE Yield(c1, n, text)

\* Reading the body raises: asyncio.TimeoutError (the total timeout of the
\* request has run out), or another exception whose message does or does
\* not contain "timeout".
ReadErrors == {"TimeoutError", "timeout in message", "other"}

client_read_raises(c, exc) ==
    IF exc = "other" THEN ClientFail(c) ELSE client_retry(c)

InitClient ==
    /\ Constructed
    /\ unload_unused = FALSE
    /\ pres = NoResolve
    /\ sg = NoStream
    /\ bt = NoBatch
    /\ ci = NoChat
    /\ cr = NoCacheRun
    /\ ao = NoOpt
    /\ qc = NoQuant
    /\ cs \in { StartClientStream(r) : r \in Responses }

ClientStep(c2) ==
    /\ cs' = c2
    /\ UNCHANGED <<mm, task, now, unload_unused, ret, reaps, pres, sg, bt, ci, cr, ao, qc>>

ClientPost(out) == cs.phase = "post" /\ ClientStep(client_post(cs, out))
ClientRead == cs.phase = "read" /\ ClientStep(client_read(cs))
ClientReadRaises(exc) == cs.phase = "read" /\ ClientStep(client_read_raises(cs, exc))

NextClient ==
    \/ \E out \in PostOuts : ClientPost(out)
    \/ ClientRead
    \/ \E exc \in ReadErrors : ClientReadRaises(exc)

SpecClient == InitClient /\ [][NextClient]_vars

\* ------------------------------------------------------------------
\* Properties

\* The handlers that are inside load_model, past its busy guard.
PastGuard == {p \in Procs : task[p].pc \in {"tok", "mdl"}}

\* C1: at most one load_model call is past the busy guard at any time, and
\* a load_model call that starts while _loading is true raises the busy
\* error at once and leaves model, tokenizer, current_model and _loading
\* (the whole ModelManager) and the in-flight call as they were.
C1_BusyGuard ==
    [][ /\ Cardinality(PastGuard') <= 1
        /\ \A p \in Procs, id \in RegistryIds :
              (mm.loading /\ LoadModel(p, id)) =>
                  /\ ret'.status = "busy"
                  /\ mm' = mm
                  /\ task' = task ]_vars

\* A load_model call has just been refused while another is in flight.
C1_Witness ==
    /\ ret.op = "load_model" /\ ret.status = "busy"
    /\ mm.loading
    /\ PastGuard # {}

\* C2: the generate call that immediately follows a successful
\* load_model(M) is served by M: its reaper check does not unload M, and
\* current_model is M afterwards, whatever time passed before the load.
C2_ServedByLoaded ==
    [][ (ret.op = "load_model" /\ ret.status = "ok" /\ ret'.op = "generate") =>
           /\ ~ret'.reaped
           /\ ret'.status # "pending"
           /\ mm'.current_model = ret.id ]_vars

\* C3: when load_model(id) raises and the registry names a fallback F for
\* id, F is loaded in its place (so the call fails only if F was tried and
\* failed too), and the ModelManager is not left with a tokenizer and no
\* model, or a model and no current_model.
C3_Fallback ==
    (ret.op = "load_model" /\ ret.status = "error" /\ Fallback(ret.id) \notin {None, ret.id}) =>
        /\ Fallback(ret.id) \in ret.tried
        /\ Truthy(mm.tokenizer) => Truthy(mm.model)
        /\ Truthy(mm.model) => Truthy(mm.current_model)

\* C4: whenever no load is executing, model and tokenizer are both null or
\* both non-null.
C4_HandlesTogether ==
    (\A p \in Procs : task[p].pc = "idle") =>
        (Truthy(mm.model) <=> Truthy(mm.tokenizer))

\* C5: a successful load_model(A) followed by unload_model() leaves model,
\* tokenizer and current_model null and _loading false, as in a
\* ModelManager just constructed.
C5_LoadUnload ==
    [][ (ret.op = "load_model" /\ ret.status = "ok" /\ ret'.op = "unload_model") =>
           /\ ret'.status = "ok"
           /\ mm'.model = NewModelManager(0).model
           /\ mm'.tokenizer = NewModelManager(0).tokenizer
           /\ mm'.current_model = NewModelManager(0).current_model
           /\ mm'.loading = NewModelManager(0).loading ]_vars

\* unload_model has just unloaded a registry model.
C5_Witness ==
    /\ ret.op = "unload_model" /\ ret.status = "ok" /\ ret.id \in RegistryIds
    /\ mm.model = None /\ mm.tokenizer = None /\ mm.current_model = None
    /\ ~mm.loading

C7_NoCrossModel ==
    (ret.op = "generate" /\ ret.status = "ok" /\ ret.hit) => ret.under = ret.cm

\* A call is answered from the cache while the cache also holds another
\* text for the same prompt hash, stored under another model.
C7_Witness ==
    /\ ret.op = "generate" /\ ret.status = "ok" /\ ret.hit
    /\ \E i \in 1..Len(mm.response_cache) :
          LET e == mm.response_cache[i]
          IN /\ e.under # ret.cm
             /\ e.key[2] = Hash(FormatPrompt(SystemInstructionsStr, ret.prompt))
             /\ e.text # ret.text

\* C8: in buffered generate no error is raised by parameter resolution;
\* every supplied parameter that coerces is the value handed to the decode
\* call, and one that does not coerce leaves the registry or global default.
Supplied(q, k) == IF k = "max_length" /\ q.max_new_tokens # PNone
                  THEN q.max_new_tokens ELSE q[k]
Coerce(k, x) == IF k \in {"max_length", "top_k"} THEN PyInt(x) ELSE PyFloat(x)
C8_Precedence ==
    pres.phase = "resolved" =>
        /\ pres.res.r = "ok"
        /\ \A k \in ParamKeys \ {"max_new_tokens"} :
              LET x == Supplied(pres.q, k)
              IN x # PNone =>
                    pres.res.gp[k] = IF Coerce(k, x).r = "ok" THEN Coerce(k, x).val
                                     ELSE get_model_generation_params(pres.cm)[k]

\* C9: a stream ends as soon as a stop marker appears in the generated
\* text, and what has been delivered to the consumer contains no marker.
C9_StopTruncated ==
    sg.phase \in {"run", "done"} =>
        /\ HasStop(sg.generated_text) => sg.phase = "done"
        /\ ~HasStop(sg.delivered)

\* C10: with no generation or load in between, check_model_timeout unloads
\* at most once: after a call that unloaded, a further call changes nothing
\* in the ModelManager.
C10_ReapOnce ==
    [][ /\ reaps' <= 1
        /\ (reaps >= 1 /\ ret'.op = "check_model_timeout") =>
              (mm' = mm /\ ~ret'.reaped) ]_vars

\* check_model_timeout is called again after it unloaded, the idle time
\* still over the timeout, and does nothing.
C10_Witness ==
    /\ reaps = 1
    /\ ret.op = "check_model_timeout" /\ ret.status = "ok" /\ ~ret.reaped
    /\ unload_unused
    /\ now - mm.last_use > MODEL_TIMEOUT

C12_Chunks ==
    sg.phase \in {"run", "done"} =>
        /\ \A i \in 1..Len(sg.chunks) :
              /\ Len(sg.chunks[i]) > 0
              /\ \E j \in 1..Len(sg.chunks[i]) : sg.chunks[i][j] # " "
        /\ sg.phase = "run" => Len(sg.delivered) <= 4 * sg.max_length

\* A stream has been cut off for length at a step that was not its last.
C12_Witness ==
    /\ sg.phase = "done"
    /\ sg.how = "cutoff"
    /\ sg.step + 2 < sg.max_length
    /\ Len(sg.chunks) >= 1
    /\ Len(sg.delivered) > 4 * sg.max_length

\* C13: _loading is true exactly while a load is executing, in load_model
\* or in load_custom_model, and false otherwise.
C13_LoadingExact ==
    mm.loading <=> (\E p \in Procs : task[p].pc \in {"tok", "mdl", "ctok", "cmdl"})

\* C14: a generate call made while a load_model call is in progress
\* (_loading true) that found a model resident, its tokenizer and decode
\* calls not failing, is not rejected with the busy error: it is served by
\* the model that was resident before the load started.
C14_GenerateDuringLoad ==
    [][ \A p \in Procs, c \in ConcurrentCalls :
          ( /\ ret.op = "load_model" /\ ret.status = "pending" /\ ret.cm # None
            /\ mm.loading
            /\ Generate(p, c.prompt, c.sysparam, c.q, c.stream, "ok", "t1") ) =>
              /\ ret'.status \in {"ok", "stream"}
              /\ ret'.cm = ret.cm ]_vars

\* C15: iterating a stream never raises to the consumer: whatever fails,
\* in a decode step or while the stream is prepared, the stream just ends.
C15_NeverRaises ==
    sg.phase = "done" => sg.how # "raised"

\* C16: a load request reports success exactly when, on return, the
\* ModelManager holds the requested model: a load that completed and
\* installed the model is not reported as failed.
C16_LoadReport ==
    (ret.op = "load_model" /\ ret.status = "ok") =>
        (ret.value = "success" <=> (mm.model = ret.id /\ mm.current_model = ret.id))

\* C17: get_model_info never fails: with a model loaded it returns a
\* snapshot whose model_id is current_model, and with none loaded the
\* "No model loaded" marker.
C17_InfoNeverFails ==
    ret.op = "get_model_info" =>
        /\ ret.status = "ok"
        /\ IF mm.current_model = None
           THEN ret.value = "No model loaded"
           ELSE ret.id = mm.current_model

\* C18: unload_model never fails and is idempotent: called with no other
\* call in progress it returns normally, and a second call right after it
\* would leave the state it left.
C18_UnloadTotal ==
    (ret.op = "unload_model" /\ \A p \in Procs : task[p].pc = "idle") =>
        /\ ret.status = "ok"
        /\ unload_model(mm) = mm

\* C19: a call of check_model_timeout changes the ModelManager only if the
\* unload flag is on, a model is loaded and now - last_used is strictly
\* greater than MODEL_TIMEOUT; otherwise model, tokenizer, current_model,
\* last_used and the response cache are as before the call.
C19_TimeoutFrame ==
    [][ (ret'.op = "check_model_timeout" /\
         ~(unload_unused /\ Truthy(mm.model) /\ now - mm.last_use > MODEL_TIMEOUT)) =>
           /\ mm'.model = mm.model
           /\ mm'.tokenizer = mm.tokenizer
           /\ mm'.current_model = mm.current_model
           /\ mm'.last_use = mm.last_use
           /\ mm'.response_cache = mm.response_cache ]_vars

\* check_model_timeout was called with the flag on and a model idle for
\* exactly MODEL_TIMEOUT, and left it loaded.
C19_Witness ==
    /\ ret.op = "check_model_timeout" /\ ret.status = "ok" /\ ~ret.reaped
    /\ unload_unused
    /\ Truthy(mm.model) /\ mm.current_model = mm.model
    /\ now - mm.last_use = MODEL_TIMEOUT

\* C20: every generation entry point runs check_model_timeout and then sets
\* last_used to the current time before it uses the model: a stream that is
\* running, or has ended after running, was opened on a ModelManager whose
\* last_used is the time of the call, whichever entry point opened it.
C20_EntryTouches ==
    (sg.phase = "run" \/ (sg.phase = "done" /\ sg.how # "raised")) =>
        /\ Truthy(mm.model)
        /\ mm.last_use = now

C22_Connect ==
    (ci.phase = "chat" /\ ci.op = "connect") =>
        /\ ci.result = "True" =>
              (ci.connected /\ ci.connection # NoConnection /\ ci.connection.open)
        /\ ci.result = "False" => (~ci.connected /\ ci.connection = NoConnection)

\* C23: a check_model_timeout call that unloads leaves the ModelManager as
\* unload_model() would have left it: model, tokenizer and current_model
\* all None.
C23_ReapIsUnload ==
    [][ (ret'.op = "check_model_timeout" /\ ret'.reaped) =>
           /\ mm' = unload_model(mm)
           /\ mm'.model = None /\ mm'.tokenizer = None /\ mm'.current_model = None ]_vars

\* C24: once current_model has changed (a load, an unload or a reap), the
\* cache entries stored before the change are never served again, even
\* when the same model id is current again: a generate call that returns
\* from the cache returns an entry that is not stale.
C24_NoStaleHit ==
    [][ (ret'.op = "generate" /\ ret'.hit) =>
           \A i \in 1..Len(mm.response_cache) :
              mm.response_cache[i].key =
                   cache_key(ret'.cm, FormatPrompt(generate_instructions(None, ret'.cm),
                                                   ret'.prompt))
                 => ~mm.response_cache[i].stale ]_vars

\* What the response cache holds: its keys and texts, in order.
CacheContents(c) == [i \in 1..Len(c) |-> <<c[i].key, c[i].text>>]

\* C25: a generate call that supplies a generation parameter (a value that
\* is not None) or asks for a stream neither reads the response cache nor
\* writes to it, whether it runs at once or after its lazy load.
C25_ParamsBypassCache ==
    [][ \A p \in Procs :
          /\ \A c \in SeqCalls, o \in SeqOuts :
                ( /\ c.q # NoParams \/ c.stream
                  /\ Generate(p, c.prompt, c.sysparam, c.q, c.stream, o[1], o[2]) ) =>
                   /\ ~ret'.hit
                   /\ CacheContents(mm'.response_cache) = CacheContents(mm.response_cache)
          /\ ( /\ task[p].pc = "mdl" /\ task[p].caller = "generate"
               /\ task[p].params # NoParams \/ task[p].stream
               /\ ret'.op = "generate" ) =>
                /\ ~ret'.hit
                /\ CacheContents(mm'.response_cache) = CacheContents(mm.response_cache) ]_vars

\* C26: after every generate call the response cache holds at most
\* CACHE_LIMIT entries; an insertion that takes it over the limit removes
\* exactly the EVICT_BATCH entries inserted first, whether or not they were
\* hit since, and keeps the others and the entry just inserted; any other
\* insertion appends, and a hit changes nothing.
C26_CacheBound ==
    [][ LET c == mm.response_cache
            d == mm'.response_cache
        IN (cr.phase = "cache" /\ ret'.op = "generate") =>
             /\ Len(d) <= CACHE_LIMIT
             /\ ret'.hit => d = c
             /\ ~ret'.hit =>
                  /\ d[Len(d)].key = cr'.key /\ d[Len(d)].text = ret'.text
                  /\ IF Len(c) + 1 > CACHE_LIMIT
                     THEN /\ Len(d) = Len(c) + 1 - EVICT_BATCH
                          /\ \A i \in 1..(Len(d) - 1) : d[i] = c[i + EVICT_BATCH]
                     ELSE /\ Len(d) = Len(c) + 1
                          /\ \A i \in 1..Len(c) : d[i] = c[i] ]_vars

\* An insertion has evicted, after a hit on the oldest entry.
C26_Witness ==
    /\ cr.phase = "cache" /\ 1 \in cr.hits
    /\ ret.op = "generate" /\ ~ret.hit
    /\ Len(mm.response_cache) = CACHE_LIMIT + 1 - EVICT_BATCH
    /\ mm.response_cache[1].key = <<DEFAULT_MODEL, EVICT_BATCH + 1>>
    /\ mm.response_cache[Len(mm.response_cache)].key = cr.key

\* C27: in a buffered generate call the decode call is made at most twice:
\* an out-of-memory error is followed by exactly one retry, whose failure
\* fails the call; any other error of the first attempt fails the call with
\* no retry.
C27_OneRetry ==
    [][ \A load_ok \in BOOLEAN, o \in BatchOuts :
          (BatchGenerate(load_ok, o[1], o[2]) /\ ret'.decodes >= 1) =>
             /\ ret'.decodes <= 2
             /\ ret'.decodes = (IF o[1] \in {"oom_ok", "oom_error"} THEN 2 ELSE 1)
             /\ ret'.status = (IF o[1] \in {"ok", "oom_ok"} THEN "ok" ELSE "error")
             /\ ret'.status = "error" => bt'.phase = "failed" ]_vars

\* A generate call has failed after its retry.
C27_Witness ==
    /\ bt.phase = "failed"
    /\ ret.op = "generate" /\ ret.status = "error" /\ ret.decodes = 2

\* C28: whatever budget (max_new_tokens) the failed attempt had, the retry
\* after an out-of-memory error is made with half of it.
C28_RetryHalves ==
    (pres.phase = "resolved" /\ pres.res.r = "ok") =>
        LET n == pres.res.gp.max_length
        IN retry_max_new_tokens(n) = Num(((n.v \div 10) \div 2) * 10)

C30_SameResolution ==
    pres.phase = "resolved" =>
        /\ pres.res.r = pres.sres.r
        /\ pres.res.gp = pres.sres.gp
        /\ Truthy(pres.sys) =>
              FormatPrompt(generate_instructions(pres.sys, pres.cm), "p1") =
              FormatPrompt(stream_instructions(pres.sys, pres.cm), "p1")

\* C31: load_model(M) that goes on to the load has unloaded the resident
\* model first exactly when the model it found resident has an id other
\* than M; a resident M is kept.
C31_UnloadOnlyOther ==
    [][\A p \in Procs, id \in RegistryIds :
          (LoadModel(p, id) /\ ret'.status = "pending")
          => ((Truthy(mm.model) /\ mm'.model = None)
              <=> (Truthy(mm.model) /\ mm.current_model # id))]_vars

\* C32: _apply_optimizations never raises, whatever flags are enabled and
\* whichever steps fail, and returns the model it was given or the wrapper
\* that the graph rewrite made of it.
C32_NeverRaises ==
    ao.phase = "done"
    => /\ ao.res.raised = None
       /\ ao.res.model \in {<<"model">>, BetterTransformer(<<"model">>)}

\* A step outside any inner try has raised, after the flag was read from a
\* string setting.
C32_Witness ==
    /\ ao.phase = "done"
    /\ ao.flags.attention_slicing = Str("1")
    /\ ao.outs.attention_slicing = "Exception"
    /\ ao.res.tried = <<"attention_slicing">>
    /\ ao.res.raised = None

\* C33: in _apply_optimizations every step that is enabled and available is
\* called, in the order of the code, whichever steps before it have failed,
\* and model.eval() has been called when the function returns.
EnabledSteps(flags, outs) ==
    SelectSeq(OptSteps, LAMBDA n : /\ n \in Toggled => Enabled(flags[n])
                                   /\ outs[n] # "absent")

C33_StepsIndependent ==
    (ao.phase = "done" /\ ao.outs.eval = "ok")
    => /\ ao.res.tried = EnabledSteps(ao.flags, ao.outs)
       /\ ao.res.eval

\* C34: _get_quantization_config never raises; it returns a quantized config
\* only with an accelerator, quantization enabled, a supported backend
\* version and the scheme int8 or int4; with no accelerator it returns the
\* full-precision config whatever the settings; in every other case the
\* half-precision config.
C34_QuantSelect ==
    qc.phase = "done"
    => /\ qc.res.raised = None
       /\ qc.res.config =
            IF ~qc.cuda THEN FullPrecision
            ELSE IF /\ Enabled(qc.enable_quantization)
                    /\ qc.bnb = "ok"
                    /\ qc.quantization_type \in {"int8", "int4"}
                 THEN Quantized(IF qc.quantization_type = "int8" THEN 8 ELSE 4)
                 ELSE HalfPrecision

MaxIterations(n) == (n + 1) \div 2

C36_StreamBounded ==
    sg.phase \in {"run", "done"}
    => /\ sg.iterations <= MaxIterations(sg.max_length)
       /\ sg.phase = "run" => sg.iterations < MaxIterations(sg.max_length)
       /\ sg.decodes <= 2 * sg.iterations
       /\ sg.budget <= sg.max_length

\* A stream of odd max_length has run to the end of its range, with a step
\* out of memory before the last.
C36_Witness ==
    /\ sg.phase = "done" /\ sg.how = "exhausted"
    /\ sg.max_length = 5
    /\ sg.iterations = MaxIterations(sg.max_length)
    /\ sg.after_oom
    /\ sg.requests = <<1>>

C38_CustomFallback ==
    (/\ ret.op = "load_custom_model" /\ ret.status = "ok" /\ ret.tried # {}
     /\ \A p \in Procs : task[p].pc = "idle")
    => /\ ret.tried = {ret.id}
       /\ Truthy(mm.model) /\ Truthy(mm.tokenizer)
       /\ mm.current_model = ret.id
       /\ ret.value = "True"

\* C39: in the client's stream_generate the chunks of the response handed to
\* the consumer all come from one request attempt: once a chunk has been
\* yielded a timeout does not post the request again, and no line of the
\* response is delivered twice.
C39_SingleAttempt ==
    cs.phase \in {"post", "read", "done"}
    => \A i, j \in 1..Len(cs.chunks) :
          (cs.chunks[i].line # 0 /\ cs.chunks[j].line # 0)
          => /\ cs.chunks[i].attempt = cs.chunks[j].attempt
             /\ (i # j => cs.chunks[i].line # cs.chunks[j].line)

=============================================================================
